---- MODULE Spec2Model ----
(***************************************************************************)
(* Model of the ralph iteration supervisor (internal/loop), its hook       *)
(* dispatcher (internal/hooks), agent runner (internal/agent), the task    *)
(* list view (internal/prd) and the run command (cmd/ralph run).           *)
(*                                                                         *)
(* One supervisor run is a sequential process whose position is pc.  It    *)
(* blocks only while waiting for a subprocess (a hook command, the agent)  *)
(* or while sleeping between iterations; every other stretch of code is    *)
(* one atomic step.  The environment acts concurrently: it cancels the     *)
(* context (signal handler), edits the task-list file, lets subprocesses   *)
(* exit, and lets the agent deadline fire.                                 *)
(***************************************************************************)
EXTENDS Integers, Sequences, FiniteSets, TLC

\* ------------------------------------------------------------------ bounds
MaxIter == 2        \* largest configured loop.maxIterations explored
MaxStories == 2     \* longest task list explored
MaxShort == 3       \* longest task list given to NextStory with any flags
MaxLong == 13       \* longest all-pending task list given to NextStory
MaxPriority == 3    \* largest priority in the short lists
MaxView == 6        \* longest task list given to IsComplete and Stats

\* --------------------------------------------------------------- task list
StoryIDs ==
    <<"US-001", "US-002", "US-003", "US-004", "US-005", "US-006", "US-007", "US-008",
      "US-009", "US-010", "US-011", "US-012", "US-013", "US-014", "US-015", "US-016">>

Story(i, prio, pass) == [ID |-> StoryIDs[i], Priority |-> prio, Passes |-> pass]

\* Task lists of exactly n stories; the i-th story carries the i-th id.
\* Priorities fall along the list, so that the story to pick is never just
\* the first pending one.
RECURSIVE ListsOfLen(_)
ListsOfLen(n) ==
    IF n = 0 THEN {<<>>}
    ELSE { Append(l, Story(n, MaxStories + 1 - n, pa)) :
             l \in ListsOfLen(n - 1), pa \in BOOLEAN }

TaskLists == UNION { ListsOfLen(n) : n \in 0..MaxStories }

\* What prd.Load can find at the PRD path: a parsable list, or a file that
\* cannot be read or parsed.
File(l) == [readable |-> TRUE, stories |-> l]
Unreadable == [readable |-> FALSE, stories |-> <<>>]
PRDFiles == { File(l) : l \in TaskLists } \cup {Unreadable}

PendingStories(p) == SelectSeq(p, LAMBDA s : ~s.Passes)

\* sort.Slice on a short slice is an insertion sort: an element moves left
\* only past elements of strictly greater priority.
RECURSIVE InsertByPriority(_, _)
InsertByPriority(sorted, s) ==
    IF sorted = <<>> THEN <<s>>
    ELSE LET last == sorted[Len(sorted)]
         IN  IF s.Priority < last.Priority
             THEN Append(InsertByPriority(SubSeq(sorted, 1, Len(sorted) - 1), s), last)
             ELSE Append(sorted, s)

RECURSIVE SortByPriority(_)
SortByPriority(l) ==
    IF l = <<>> THEN <<>>
    ELSE InsertByPriority(SortByPriority(SubSeq(l, 1, Len(l) - 1)), l[Len(l)])

NoStory == [ID |-> "", Priority |-> 0, Passes |-> FALSE]

\* Mutant of NextStory: the first pending story in file order.
NextStoryFirstPending(p) ==
    LET pending == PendingStories(p)
    IN  IF Len(pending) = 0 THEN NoStory ELSE pending[1]

\* nil is modelled by NoStory (empty identifier).
NextStory(p) ==
    LET pending == PendingStories(p)
    IN  IF Len(pending) = 0 THEN NoStory ELSE SortByPriority(pending)[1]

\* The sorts that a build of sort.Slice runs, by the number of elements:
\* up to ShellGap a plain insertion sort in every toolchain; up to
\* MaxInsertion an insertion sort, which older toolchains precede by one
\* pass that swaps elements ShellGap apart; above that a quicksort, which
\* keeps no order among equal elements.
ShellGap == 6
MaxInsertion == 12

ShellPass(l) ==
    [i \in 1..Len(l) |->
       IF i + ShellGap <= Len(l) /\ l[i + ShellGap].Priority < l[i].Priority
       THEN l[i + ShellGap]
       ELSE IF i > ShellGap /\ l[i].Priority < l[i - ShellGap].Priority
       THEN l[i - ShellGap]
       ELSE l[i]]

MinPriority(l) ==
    CHOOSE m \in { l[i].Priority : i \in 1..Len(l) } :
      \A i \in 1..Len(l) : m <= l[i].Priority

\* Every story that NextStory can return for the list p.
NextStoryOutcomes(p) ==
    LET pending == PendingStories(p)
        n == Len(pending)
    IN  IF n <= ShellGap THEN {NextStory(p)}
        ELSE IF n <= MaxInsertion
        THEN {SortByPriority(pending)[1], SortByPriority(ShellPass(pending))[1]}
        ELSE { pending[i] : i \in { j \in 1..n : pending[j].Priority = MinPriority(pending) } }

\* Mutant of IsComplete: the loop alone, without the test of the length.
IsCompleteVacuous(p) == \A i \in 1..Len(p) : p[i].Passes

IsComplete(p) ==
    /\ \A i \in 1..Len(p) : p[i].Passes
    /\ Len(p) > 0

Stats(p) ==
    [total     |-> Len(p),
     completed |-> Cardinality({ i \in 1..Len(p) : p[i].Passes }),
     pending   |-> Cardinality({ i \in 1..Len(p) : ~p[i].Passes })]


\* ------------------------------------------------------------ agent output
\* Text is a sequence of tokens; the completion marker is three of them.
Marker == <<"<promise>", "COMPLETE", "</promise>">>

\* strings.Contains
Contains(s, sub) ==
    \E i \in 0..(Len(s) - Len(sub)) : SubSeq(s, i + 1, i + Len(sub)) = sub

Outputs ==
    { <<"working">>,
      <<"<promise>", "working", "COMPLETE", "</promise>">>,
      <<"done">> \o Marker \o <<"bye">> }

\* ------------------------------------------------------------------ errors
\* An error is the chain of its wrapped messages, outermost first; nil is
\* the empty chain.
NoError == <<>>
Wrap(msg, err) == <<msg>> \o err

ErrCanceled == <<"context canceled">>
ErrDeadline == <<"context deadline exceeded">>
ErrNotFound == <<"executable file not found">>
ErrExit     == <<"exit status 1">>
ErrKilled   == <<"signal: killed">>

\* ------------------------------------------------------------------- hooks
Phases == {"onStart", "onIteration", "onComplete", "onFailure"}

\* Mutant of Fields: a blank command is taken as a command to run.
FieldsOfBlank(command) == <<command>>

\* strings.Fields of a hook command: no field for an empty or blank command.
Fields(command) == IF command \in {"", " "} THEN <<>> ELSE <<command>>

NoHooks ==
    [onStart |-> <<>>, onIteration |-> <<>>, onComplete |-> <<>>, onFailure |-> <<>>]

AllHooks ==
    [onStart     |-> <<"", "git checkout">>,
     onIteration |-> <<" ", "npm run lint">>,
     onComplete  |-> <<"git push", "notify done">>,
     onFailure   |-> <<"notify failed">>]

\* The hook and timeout settings explored.
Profiles ==
    { [Timeout |-> 30, HooksEnabled |-> TRUE,  Hooks |-> AllHooks],
      [Timeout |-> 30, HooksEnabled |-> TRUE,  Hooks |-> NoHooks],
      [Timeout |-> 0,  HooksEnabled |-> FALSE, Hooks |-> AllHooks] }

\* ----------------------------------------------------------- configuration
\* --once forces MaxIterations to 1; otherwise the configured value is used
\* as it is, and nothing rejects a value below 1: zero and a negative value
\* are both explored.
MakeConfig(n, p, once) ==
    [MaxIterations |-> n, Timeout |-> p.Timeout, HooksEnabled |-> p.HooksEnabled,
     Hooks |-> p.Hooks, runOnce |-> once]

Configs ==
    { MakeConfig(n, p, FALSE) : n \in -1..MaxIter, p \in Profiles }
      \cup { MakeConfig(1, p, TRUE) : p \in Profiles }

\* ------------------------------------------------------------------- state
VARIABLES
    Config,          \* l.Config, the hook runner's fields and the --once flag
    Prompt,          \* l.Prompt: whether the loaded template renders
    prdFile,         \* content of the task-list file
    ctxDone,         \* the run's cancellation token has been signalled
    pc,              \* position of the supervisor
    Iteration,       \* l.Iteration
    PRD,             \* l.PRD
    StoriesComplete, \* l.StoriesComplete
    nextStory,       \* runIteration's nextStory
    stats,           \* runIteration's total, completed, pending
    hooksLeft,       \* commands of the running hook phase not yet finished
    hookEnv,         \* environment overlay of the running hook phase
    child,           \* the subprocess being waited on: none, hook or agent
    alive,           \* number of subprocesses started and not yet exited
    deadline,        \* the agent's per-invocation deadline has expired
    agentResult,     \* the last agent.Result
    result,          \* the Result handed to the caller
    \* history
    fired,           \* per phase, how often the dispatcher was called
    hookFailed,      \* some hook command has failed
    agentCalls,      \* number of Agent.Execute calls
    markerAt,        \* the call whose output first held the marker, or 0
    agentFailed,     \* some agent call ended with a non-zero code or an error
    reloads,         \* number of task-list reloads at the top of an iteration
    fullAtReload,    \* some reload found the task list complete
    sleeps,          \* number of inter-iteration sleeps that have ended
    cancelledIn      \* iteration whose agent ran when the token was cancelled, or 0

conf  == <<Config, Prompt>>
envir == <<prdFile, ctxDone>>
ctl   == <<pc, Iteration, hooksLeft, hookEnv, result, fired>>
loc   == <<PRD, StoriesComplete, nextStory, stats, child, alive, deadline,
           agentResult>>
hist  == <<hookFailed, agentCalls, markerAt, agentFailed, reloads, fullAtReload,
           sleeps, cancelledIn>>

\* State outside the supervisor run: the process registry and its callers,
\* and the task-list view called on its own.
VARIABLES
    record,          \* the PID record file: absent, or its text
    live,            \* identifiers of the processes that are alive
    inCall,          \* per caller, the registry call in progress
    ret,             \* per caller, what its last call returned
    sent,            \* signals delivered so far, in order
    budget,          \* calls that may still be started
    userStories,     \* p.UserStories of a task list NextStory is called on
    picked,          \* what that call returned
    pickDone,        \* the call has returned
    answers          \* what IsComplete and Stats returned for that list

registry == <<record, live, inCall, ret, sent, budget>>
view     == <<userStories, picked, pickDone, answers>>
outside  == <<registry, view>>
run      == <<conf, envir, ctl, loc, hist>>
vars     == <<run, outside>>

NoEnv == [RALPH_HOOK |-> "none"]
NoResult ==
    [Success |-> FALSE, Iterations |-> 0, StoriesComplete |-> 0,
     Error |-> NoError, Reason |-> ""]
NoAgentResult ==
    [Output |-> <<>>, ExitCode |-> 0, IsComplete |-> FALSE, Error |-> NoError]

\* The supervisor before Run or RunOnce is entered.
RunAtRest ==
    /\ ctxDone = FALSE
    /\ pc = "idle"
    /\ Iteration = 0
    /\ StoriesComplete = 0
    /\ nextStory = NoStory
    /\ stats = Stats(<<>>)
    /\ hooksLeft = <<>>
    /\ child = "none"
    /\ alive = 0
    /\ deadline = FALSE
    /\ agentResult = NoAgentResult
    /\ result = NoResult
    /\ fired = [ph \in Phases |-> 0]
    /\ hookEnv = NoEnv
    /\ hookFailed = FALSE
    /\ agentCalls = 0
    /\ markerAt = 0
    /\ agentFailed = FALSE
    /\ reloads = 0
    /\ fullAtReload = FALSE
    /\ sleeps = 0
    /\ cancelledIn = 0

\* No supervisor run: a loop that has nothing to do and is never entered.
NoRun ==
    /\ Config = MakeConfig(0, [Timeout |-> 0, HooksEnabled |-> FALSE, Hooks |-> NoHooks],
                           FALSE)
    /\ Prompt = "valid"
    /\ PRD = <<>>
    /\ prdFile = File(<<>>)
    /\ RunAtRest

\* ------------------------------------------------- outside state, at rest
\* Process identifiers: the two processes that call the registry (the
\* supervisor's own and a second invocation of the program) and one more
\* that a record can name.
SupervisorPid == 7
SecondPid == 12
Callers == {SupervisorPid, SecondPid}
Pids == Callers \cup {40}

NoRecord == [exists |-> FALSE, text |-> <<>>]
Idle ==
    [op |-> "none", phase |-> "none", step |-> "none", sig |-> "none", pid |-> 0,
     polls |-> 0]
NoReturn == [op |-> "none", err |-> "nil", ok |-> FALSE, pid |-> 0, out |-> ""]

\* No record file, nobody calling the registry.
RegistryAtRest ==
    /\ record = NoRecord
    /\ live = {SupervisorPid}
    /\ inCall = [p \in Callers |-> Idle]
    /\ ret = [p \in Callers |-> NoReturn]
    /\ sent = <<>>
    /\ budget = 0

\* A return value not yet given is the empty sequence, a given one the
\* sequence of that value.
NoAnswers == [IsComplete |-> <<>>, Stats |-> <<>>]

ViewAtRest ==
    /\ userStories = <<>>
    /\ picked = NoStory
    /\ pickDone = FALSE
    /\ answers = NoAnswers

\* The state when the run command has created the loop and Load has read the
\* three files (runLoop up to the signal handler being installed).  The run
\* command does not touch the PID record.
Init ==
    /\ Config \in Configs
    /\ Prompt \in {"valid", "invalid"}
    /\ PRD \in TaskLists
    /\ prdFile = File(PRD)
    /\ RunAtRest
    /\ RegistryAtRest
    /\ ViewAtRest

\* ----------------------------------------------------- supervisor control
\* The control part of the state as one record, so that the code after a
\* call ("the dispatcher returned", "the iteration returned") can be written
\* once and composed.
Ctl ==
    [pc |-> pc, Iteration |-> Iteration, hooksLeft |-> hooksLeft,
     result |-> result, fired |-> fired, hookEnv |-> hookEnv]

SetCtl(u) ==
    /\ pc' = u.pc
    /\ Iteration' = u.Iteration
    /\ hooksLeft' = u.hooksLeft
    /\ result' = u.result
    /\ fired' = u.fired
    /\ hookEnv' = u.hookEnv

\* Runner.Run: the commands of the phase, none when hooks are disabled.
PhaseCommands(phase) ==
    IF ~Config.HooksEnabled THEN <<>> ELSE Config.Hooks[phase]

\* Runner.RunOnStart / RunOnIteration / RunOnComplete / RunOnFailure entering
\* Runner.Run with their overlay.
Dispatch(u, phase, env) ==
    [u EXCEPT !.pc = phase,
              !.hooksLeft = PhaseCommands(phase),
              !.hookEnv = env,
              !.fired = [@ EXCEPT ![phase] = @ + 1]]

StartEnv(storyID) ==
    [RALPH_ITERATION |-> 0, RALPH_STORY_ID |-> storyID, RALPH_HOOK |-> "onStart"]
IterationEnv(iteration, storyID) ==
    [RALPH_ITERATION |-> iteration, RALPH_STORY_ID |-> storyID,
     RALPH_HOOK |-> "onIteration"]
CompleteEnv(iterations, storiesCompleted) ==
    [RALPH_ITERATIONS |-> iterations, RALPH_STORIES_COMPLETED |-> storiesCompleted,
     RALPH_HOOK |-> "onComplete"]
\* Mutant of FailureEnv: the failure reason is left out of the overlay.
FailureEnvNoReason(iteration, reason) ==
    [RALPH_ITERATION |-> iteration, RALPH_FAILURE_REASON |-> <<>>,
     RALPH_HOOK |-> "onFailure"]
FailureEnv(iteration, reason) ==
    [RALPH_ITERATION |-> iteration, RALPH_FAILURE_REASON |-> reason,
     RALPH_HOOK |-> "onFailure"]

\* runLoop, the --once branch: the Result built around RunOnce's outcome.
OnceResult(complete, err) ==
    [Success |-> complete \/ err = NoError,
     Iterations |-> 1,
     StoriesComplete |-> 0,
     Error |-> err,
     Reason |-> IF complete THEN "complete"
                ELSE IF err # NoError THEN "error"
                ELSE "iteration_complete"]

\* Mutant of IterationReturns: an iteration that neither failed nor completed
\* is followed by another agent call in the same iteration.
IterationReturnsRetry(u, complete, err, sc) ==
    IF Config.runOnce
    THEN [u EXCEPT !.pc = "done", !.result = OnceResult(complete, err)]
    ELSE IF err # NoError
    THEN Dispatch([u EXCEPT !.result = [@ EXCEPT !.Error = err,
                                                 !.Reason = "error",
                                                 !.Iterations = u.Iteration]],
                  "onFailure", FailureEnv(u.Iteration, err))
    ELSE IF complete
    THEN Dispatch([u EXCEPT !.result = [@ EXCEPT !.Success = TRUE,
                                                 !.Reason = "complete",
                                                 !.Iterations = u.Iteration,
                                                 !.StoriesComplete = sc]],
                  "onComplete", CompleteEnv(u.Iteration, sc))
    ELSE IF u.Iteration < Config.MaxIterations
    THEN [u EXCEPT !.pc = "execute"]
    ELSE [u EXCEPT !.pc = "loop", !.Iteration = @ + 1]

\* Mutant of IterationReturns: the error branch returns without the failure
\* hook.
IterationReturnsNoFailureHook(u, complete, err, sc) ==
    IF Config.runOnce
    THEN [u EXCEPT !.pc = "done", !.result = OnceResult(complete, err)]
    ELSE IF err # NoError
    THEN [u EXCEPT !.pc = "done",
                   !.result = [@ EXCEPT !.Error = err,
                                        !.Reason = "error",
                                        !.Iterations = u.Iteration]]
    ELSE IF complete
    THEN Dispatch([u EXCEPT !.result = [@ EXCEPT !.Success = TRUE,
                                                 !.Reason = "complete",
                                                 !.Iterations = u.Iteration,
                                                 !.StoriesComplete = sc]],
                  "onComplete", CompleteEnv(u.Iteration, sc))
    ELSE IF u.Iteration < Config.MaxIterations
    THEN [u EXCEPT !.pc = "sleep"]
    ELSE [u EXCEPT !.pc = "loop", !.Iteration = @ + 1]

\* Run after runIteration has returned (complete, err), with l.StoriesComplete
\* = sc: the error branch, the complete branch, the sleep and the loop's
\* increment.
IterationReturns(u, complete, err, sc) ==
    IF Config.runOnce
    THEN [u EXCEPT !.pc = "done", !.result = OnceResult(complete, err)]
    ELSE IF err # NoError
    THEN Dispatch([u EXCEPT !.result = [@ EXCEPT !.Error = err,
                                                 !.Reason = "error",
                                                 !.Iterations = u.Iteration]],
                  "onFailure", FailureEnv(u.Iteration, err))
    ELSE IF complete
    THEN Dispatch([u EXCEPT !.result = [@ EXCEPT !.Success = TRUE,
                                                 !.Reason = "complete",
                                                 !.Iterations = u.Iteration,
                                                 !.StoriesComplete = sc]],
                  "onComplete", CompleteEnv(u.Iteration, sc))
    ELSE IF u.Iteration < Config.MaxIterations
    THEN [u EXCEPT !.pc = "sleep"]
    ELSE [u EXCEPT !.pc = "loop", !.Iteration = @ + 1]

\* Mutant of PhaseReturns: a failing complete or failure phase is recorded
\* in the Result.
PhaseReturnsRecordsLateFailure(v, err) ==
    LET u == [v EXCEPT !.hookEnv = NoEnv] IN
    CASE u.pc = "onStart" ->
           IF err # NoError
           THEN [u EXCEPT !.pc = "done",
                          !.result = [@ EXCEPT !.Error = Wrap("onStart hook failed", err),
                                               !.Reason = "error"]]
           ELSE [u EXCEPT !.pc = "loop", !.Iteration = 1]
      [] u.pc = "onIteration" ->
           IF err # NoError
           THEN IterationReturns(u, FALSE, Wrap("onIteration hook failed", err),
                                 StoriesComplete)
           ELSE [u EXCEPT !.pc = "execute"]
      [] u.pc \in {"onComplete", "onFailure"} ->
           IF err # NoError
           THEN [u EXCEPT !.pc = "done",
                          !.result = [@ EXCEPT !.Error = err, !.Reason = "error",
                                               !.Success = FALSE]]
           ELSE [u EXCEPT !.pc = "done"]

\* The caller's code after Runner.Run has returned err for the phase.
PhaseReturns(v, err) ==
    LET u == [v EXCEPT !.hookEnv = NoEnv] IN
    CASE u.pc = "onStart" ->
           IF err # NoError
           THEN [u EXCEPT !.pc = "done",
                          !.result = [@ EXCEPT !.Error = Wrap("onStart hook failed", err),
                                               !.Reason = "error"]]
           ELSE [u EXCEPT !.pc = "loop", !.Iteration = 1]
      [] u.pc = "onIteration" ->
           IF err # NoError
           THEN IterationReturns(u, FALSE, Wrap("onIteration hook failed", err),
                                 StoriesComplete)
           ELSE [u EXCEPT !.pc = "execute"]
      [] u.pc \in {"onComplete", "onFailure"} ->
           [u EXCEPT !.pc = "done"]


\* ------------------------------------------------------------ subprocesses
\* cmd.Run is Start followed by Wait: the process is alive from a successful
\* Start until Wait has seen it exit, and Run returns only then.
AfterStart(n) == n + 1

\* Mutant of AfterWait: Run returns while the process is still alive.
AfterWaitStillAlive(n) == n

AfterWait(n) == n - 1

\* ------------------------------------------------------------ agent runner
IsExitError(err) == err \in {ErrExit, ErrKilled}

\* (*exec.ExitError).ExitCode: the exit status, or -1 for a signalled process.
ExitCodeOf(err) == IF err = ErrKilled THEN -1 ELSE 1

\* ctx.Err() of the context Execute derives: the deadline if it expired
\* first, else the caller's cancellation.
AgentCtxErr ==
    IF deadline THEN "deadline" ELSE IF ctxDone THEN "canceled" ELSE "none"

\* time.Duration's %v form, for the two timeouts explored (minutes).
DurationString(t) == IF t = 0 THEN "0s" ELSE "30m0s"

\* Mutant of ExecuteResult: the marker is looked for only after a clean exit.
ExecuteResultMarkerOnCleanExit(runErr, ctxErr, output) ==
    [Output     |-> output,
     ExitCode   |-> IF runErr = NoError THEN 0
                    ELSE IF IsExitError(runErr) THEN ExitCodeOf(runErr)
                    ELSE -1,
     IsComplete |-> runErr = NoError /\ Contains(output, Marker),
     Error      |-> IF runErr = NoError \/ IsExitError(runErr) THEN NoError
                    ELSE IF ctxErr = "deadline"
                    THEN <<"agent timed out after", DurationString(Config.Timeout)>>
                    ELSE runErr]

\* Agent.Execute from cmd.Run's return on: runErr is what cmd.Run returned,
\* ctxErr the derived context's state, output the captured text.
ExecuteResult(runErr, ctxErr, output) ==
    [Output     |-> output,
     ExitCode   |-> IF runErr = NoError THEN 0
                    ELSE IF IsExitError(runErr) THEN ExitCodeOf(runErr)
                    ELSE -1,
     IsComplete |-> Contains(output, Marker),
     Error      |-> IF runErr = NoError \/ IsExitError(runErr) THEN NoError
                    ELSE IF ctxErr = "deadline"
                    THEN <<"agent timed out after", DurationString(Config.Timeout)>>
                    ELSE runErr]

\* Mutant of ExecuteError: what cmd.Run returned is handed to the caller.
ExecuteErrorPropagates(runErr) == runErr

\* The error Agent.Execute returns next to its result.
ExecuteError(runErr) == NoError

\* runIteration once Execute has returned (ar, err): the completion check
\* and the update of l.StoriesComplete from a second read of the file.
StoriesAfter(ar) ==
    LET sc == IF ar.IsComplete THEN stats.completed + stats.pending
              ELSE StoriesComplete
    IN  IF prdFile.readable /\ Stats(prdFile.stories).completed > stats.completed
        THEN Stats(prdFile.stories).completed
        ELSE sc

\* Mutant of AfterExecute: the completion flag counts only for an agent that
\* exited with code 0 and no error.
AfterExecuteCompleteOnlyOnSuccess(ar, err, call) ==
    /\ agentResult' = ar
    /\ markerAt' = IF markerAt = 0 /\ Contains(ar.Output, Marker)
                   THEN call ELSE markerAt
    /\ agentFailed' = (agentFailed \/ ar.ExitCode # 0 \/ ar.Error # NoError)
    /\ IF err # NoError
       THEN /\ StoriesComplete' = StoriesComplete
            /\ SetCtl(IterationReturns(Ctl, FALSE,
                                       Wrap("agent execution failed", err),
                                       StoriesComplete))
       ELSE /\ StoriesComplete' = StoriesAfter(ar)
            /\ SetCtl(IterationReturns(Ctl,
                                       ar.IsComplete /\ ar.ExitCode = 0
                                         /\ ar.Error = NoError,
                                       NoError, StoriesAfter(ar)))

AfterExecute(ar, err, call) ==
    /\ agentResult' = ar
    /\ markerAt' = IF markerAt = 0 /\ Contains(ar.Output, Marker)
                   THEN call ELSE markerAt
    /\ agentFailed' = (agentFailed \/ ar.ExitCode # 0 \/ ar.Error # NoError)
    /\ IF err # NoError
       THEN /\ StoriesComplete' = StoriesComplete
            /\ SetCtl(IterationReturns(Ctl, FALSE,
                                       Wrap("agent execution failed", err),
                                       StoriesComplete))
       ELSE /\ StoriesComplete' = StoriesAfter(ar)
            /\ SetCtl(IterationReturns(Ctl, ar.IsComplete, NoError, StoriesAfter(ar)))


\* ----------------------------------------------------------------- actions
\* Run up to the start-hook dispatch: the short circuit on a task list that
\* is already complete, else the start hooks for the first pending story.
\* Mutant of RunStart: the start hooks run before the completion check.
RunStartHooksFirst(u) ==
    Dispatch(u, "onStart", StartEnv(NextStory(PRD).ID))

\* Run's first statements, on the task list Load has read.
RunStart(u) ==
    IF IsComplete(PRD)
    THEN [u EXCEPT !.pc = "done",
                   !.result = [@ EXCEPT !.Success = TRUE, !.Reason = "complete"]]
    ELSE Dispatch(u, "onStart", StartEnv(NextStory(PRD).ID))

RunEntry ==
    /\ pc = "idle"
    /\ ~Config.runOnce
    /\ SetCtl(RunStart(Ctl))
    /\ UNCHANGED <<conf, outside, envir, loc, hist>>

\* Mutant of BeginIteration: the file is read but the copy in memory is kept
\* and used.
BeginIterationCached(u) ==
    /\ reloads' = reloads + 1
    /\ agentResult' = NoAgentResult
    /\ IF ~prdFile.readable
       THEN /\ SetCtl(IterationReturns(u, FALSE,
                        <<"failed to reload PRD", "failed to read PRD file">>,
                        StoriesComplete))
            /\ UNCHANGED <<PRD, nextStory, stats, fullAtReload>>
       ELSE /\ PRD' = PRD
            /\ fullAtReload' = (fullAtReload \/ IsComplete(PRD))
            /\ IF IsComplete(PRD) \/ NextStory(PRD) = NoStory
               THEN /\ SetCtl(IterationReturns(u, TRUE, NoError, StoriesComplete))
                    /\ UNCHANGED <<nextStory, stats>>
               ELSE /\ nextStory' = NextStory(PRD)
                    /\ stats' = Stats(PRD)
                    /\ SetCtl(Dispatch(u, "onIteration",
                                       IterationEnv(u.Iteration, NextStory(PRD).ID)))
    /\ UNCHANGED <<conf, outside, envir, StoriesComplete, child, alive, deadline,
                   hookFailed, agentCalls, markerAt, agentFailed, sleeps, cancelledIn>>

\* runIteration up to the iteration-hook dispatch: reload of the task list,
\* completion check, selection of the next story.
BeginIteration(u) ==
    /\ reloads' = reloads + 1
    /\ agentResult' = NoAgentResult
    /\ IF ~prdFile.readable
       THEN /\ SetCtl(IterationReturns(u, FALSE,
                        <<"failed to reload PRD", "failed to read PRD file">>,
                        StoriesComplete))
            /\ UNCHANGED <<PRD, nextStory, stats, fullAtReload>>
       ELSE /\ PRD' = prdFile.stories
            /\ fullAtReload' = (fullAtReload \/ IsComplete(prdFile.stories))
            /\ IF IsComplete(prdFile.stories) \/ NextStory(prdFile.stories) = NoStory
               THEN /\ SetCtl(IterationReturns(u, TRUE, NoError, StoriesComplete))
                    /\ UNCHANGED <<nextStory, stats>>
               ELSE /\ nextStory' = NextStory(prdFile.stories)
                    /\ stats' = Stats(prdFile.stories)
                    /\ SetCtl(Dispatch(u, "onIteration",
                                       IterationEnv(u.Iteration,
                                                    NextStory(prdFile.stories).ID)))
    /\ UNCHANGED <<conf, outside, envir, StoriesComplete, child, alive, deadline,
                   hookFailed, agentCalls, markerAt, agentFailed, sleeps, cancelledIn>>

\* Mutant of RunOnceEntry: the iteration body runs with the counter as it is.
RunOnceEntryKeepsCounter ==
    /\ pc = "idle"
    /\ Config.runOnce
    /\ BeginIteration(Ctl)

\* RunOnce: the counter is forced to 1 and one iteration body runs.
RunOnceEntry ==
    /\ pc = "idle"
    /\ Config.runOnce
    /\ BeginIteration([Ctl EXCEPT !.Iteration = 1])

\* Mutant of LoopTop: the body starts without the select on ctx.Done().
LoopTopIgnoresCancel ==
    /\ pc = "loop"
    /\ IF Iteration > Config.MaxIterations
       THEN /\ SetCtl(Dispatch([Ctl EXCEPT !.result =
                                   [@ EXCEPT !.Reason = "max_iterations",
                                             !.Iterations = Iteration - 1]],
                               "onFailure",
                               FailureEnv(Iteration, <<"max iterations reached">>)))
            /\ UNCHANGED <<conf, outside, envir, loc, hist>>
       ELSE BeginIteration(Ctl)

\* Run's for statement and the select on ctx.Done() at the top of its body,
\* then the iteration.
LoopTop ==
    /\ pc = "loop"
    /\ IF Iteration > Config.MaxIterations
       THEN /\ SetCtl(Dispatch([Ctl EXCEPT !.result =
                                   [@ EXCEPT !.Reason = "max_iterations",
                                             !.Iterations = Iteration - 1]],
                               "onFailure",
                               FailureEnv(Iteration, <<"max iterations reached">>)))
            /\ UNCHANGED <<conf, outside, envir, loc, hist>>
       ELSE IF ctxDone
       THEN /\ SetCtl([Ctl EXCEPT !.pc = "done",
                                  !.result = [@ EXCEPT !.Error = ErrCanceled,
                                                       !.Reason = "cancelled",
                                                       !.Iterations = Iteration]])
            /\ UNCHANGED <<conf, outside, envir, loc, hist>>
       ELSE BeginIteration(Ctl)

\* Runner.Run's loop over the phase's commands, and runSingle.
HookSkipBlank ==
    /\ pc \in Phases
    /\ child = "none"
    /\ hooksLeft # <<>>
    /\ Fields(Head(hooksLeft)) = <<>>
    /\ hooksLeft' = Tail(hooksLeft)
    /\ UNCHANGED <<conf, outside, envir, pc, Iteration, result, fired, hookEnv, loc, hist>>

HookFails(err) ==
    /\ hookFailed' = TRUE
    /\ child' = "none"
    /\ alive' = IF child = "hook" THEN AfterWait(alive) ELSE alive
    /\ SetCtl(PhaseReturns([Ctl EXCEPT !.hooksLeft = <<>>],
                           Wrap("hook " \o Head(hooksLeft) \o " failed", err)))
    /\ UNCHANGED <<conf, outside, envir, PRD, StoriesComplete, nextStory, stats, deadline,
                   agentResult, agentCalls, markerAt, agentFailed, reloads, fullAtReload,
                   sleeps, cancelledIn>>

\* cmd.Run's start: refused when the context is already done, else the
\* command may fail to launch.
HookStart ==
    /\ pc \in Phases
    /\ child = "none"
    /\ hooksLeft # <<>>
    /\ Fields(Head(hooksLeft)) # <<>>
    /\ IF ctxDone
       THEN HookFails(ErrCanceled)
       ELSE \/ /\ child' = "hook"
               /\ alive' = AfterStart(alive)
               /\ UNCHANGED <<conf, outside, envir, ctl, PRD, StoriesComplete, nextStory,
                              stats, deadline, agentResult, hist>>
            \/ HookFails(ErrNotFound)

\* cmd.Run's wait: the command exits by itself, or is killed once the
\* context is done.
HookExit ==
    /\ pc \in Phases
    /\ child = "hook"
    /\ \/ /\ child' = "none"
          /\ alive' = AfterWait(alive)
          /\ hooksLeft' = Tail(hooksLeft)
          /\ UNCHANGED <<conf, outside, envir, pc, Iteration, result, fired, hookEnv,
                         PRD, StoriesComplete, nextStory, stats, deadline,
                         agentResult, hist>>
       \/ HookFails(ErrExit)
       \/ /\ ctxDone
          /\ HookFails(ErrKilled)

HookReturn ==
    /\ pc \in Phases
    /\ child = "none"
    /\ hooksLeft = <<>>
    /\ SetCtl(PhaseReturns(Ctl, NoError))
    /\ UNCHANGED <<conf, outside, envir, loc, hist>>

\* runIteration from the progress reload to Execute's cmd.Run starting the
\* agent.
Execute ==
    /\ pc = "execute"
    /\ \/ /\ SetCtl(IterationReturns(Ctl, FALSE,
                      <<"failed to reload progress", "failed to read progress file">>,
                      StoriesComplete))
          /\ UNCHANGED <<conf, outside, envir, loc, hist>>
       \/ /\ Prompt = "invalid"
          /\ SetCtl(IterationReturns(Ctl, FALSE,
                      <<"failed to render prompt", "failed to parse prompt template">>,
                      StoriesComplete))
          /\ UNCHANGED <<conf, outside, envir, loc, hist>>
       \/ /\ Prompt = "valid"
          /\ agentCalls' = agentCalls + 1
          /\ IF ctxDone
             THEN /\ AfterExecute(ExecuteResult(ErrCanceled, "canceled", <<>>),
                                  ExecuteError(ErrCanceled), agentCalls + 1)
                  /\ UNCHANGED <<conf, outside, envir, PRD, nextStory, stats, child, alive, deadline,
                                 hookFailed, reloads, fullAtReload, sleeps, cancelledIn>>
             ELSE \/ /\ AfterExecute(ExecuteResult(ErrNotFound, "none", <<>>),
                                     ExecuteError(ErrNotFound), agentCalls + 1)
                     /\ UNCHANGED <<conf, outside, envir, PRD, nextStory, stats, child, alive,
                                    deadline, hookFailed, reloads, fullAtReload, sleeps, cancelledIn>>
                  \/ /\ pc' = "agent"
                     /\ child' = "agent"
                     /\ alive' = AfterStart(alive)
                     /\ deadline' = FALSE
                     /\ UNCHANGED <<conf, outside, envir, Iteration, hooksLeft, result, fired,
                                    hookEnv, PRD, StoriesComplete, nextStory, stats,
                                    agentResult, hookFailed, markerAt, agentFailed, reloads,
                                    fullAtReload, sleeps, cancelledIn>>

\* context.WithTimeout's timer.
DeadlineFires ==
    /\ pc = "agent"
    /\ Config.Timeout > 0
    /\ ~deadline
    /\ ~ctxDone
    /\ deadline' = TRUE
    /\ UNCHANGED <<conf, outside, envir, ctl, PRD, StoriesComplete, nextStory, stats, child, alive,
                   agentResult, hist>>

\* What cmd.Run can return for a started agent: nil or an exit status when
\* the agent exits by itself; once the derived context is done the process
\* is killed, and a process that had already exited cleanly is reported
\* either as a clean exit or with the context's error.
RunErrors ==
    {NoError, ErrExit}
      \cup (IF AgentCtxErr = "canceled" THEN {ErrKilled, ErrCanceled} ELSE {})
      \cup (IF AgentCtxErr = "deadline" THEN {ErrKilled, ErrDeadline} ELSE {})

AgentExit ==
    /\ pc = "agent"
    /\ child = "agent"
    /\ child' = "none"
    /\ alive' = AfterWait(alive)
    /\ \E runErr \in RunErrors, output \in Outputs :
         AfterExecute(ExecuteResult(runErr, AgentCtxErr, output), ExecuteError(runErr),
                      agentCalls)
    /\ UNCHANGED <<conf, outside, envir, PRD, nextStory, stats, deadline, hookFailed,
                   agentCalls, reloads, fullAtReload, sleeps, cancelledIn>>

\* Mutant of SleepDone: the sleep does not return.
SleepDoneNever ==
    /\ pc = "sleep"
    /\ UNCHANGED vars

\* time.Sleep returning, and the for statement's increment.
SleepDone ==
    /\ pc = "sleep"
    /\ SetCtl([Ctl EXCEPT !.pc = "loop", !.Iteration = @ + 1])
    /\ sleeps' = sleeps + 1
    /\ UNCHANGED <<conf, outside, envir, loc, hookFailed, agentCalls, markerAt,
                   agentFailed, reloads, fullAtReload, cancelledIn>>

\* The signal handler cancelling the context.
Cancel ==
    /\ pc # "done"
    /\ ~ctxDone
    /\ ctxDone' = TRUE
    /\ cancelledIn' = IF pc = "agent" /\ child = "agent" THEN Iteration ELSE 0
    /\ UNCHANGED <<conf, outside, prdFile, ctl, loc, hookFailed, agentCalls,
                   markerAt, agentFailed, reloads, fullAtReload, sleeps>>

\* The agent or a person rewriting the task-list file: the same stories with
\* any of them marked passing or pending, or a file that cannot be read.
EditPRD ==
    /\ pc # "done"
    /\ \E f \in { File(l) : l \in ListsOfLen(Len(PRD)) } \cup {Unreadable} :
         /\ f # prdFile
         /\ prdFile' = f
    /\ UNCHANGED <<conf, outside, ctxDone, ctl, loc, hist>>

Next ==
    \/ RunEntry
    \/ RunOnceEntry
    \/ LoopTop
    \/ HookSkipBlank
    \/ HookStart
    \/ HookExit
    \/ HookReturn
    \/ Execute
    \/ DeadlineFires
    \/ AgentExit
    \/ SleepDone
    \/ Cancel
    \/ EditPRD

Spec == Init /\ [][Next]_vars

\* The supervisor is one goroutine that runs whenever it is not blocked, so
\* each of its own steps is taken once it can be; a started hook command and
\* a started agent exit (at the latest when killed at the deadline or on
\* cancellation), and time.Sleep returns.
SupervisorStep ==
    \/ RunEntry
    \/ RunOnceEntry
    \/ LoopTop
    \/ HookSkipBlank
    \/ HookStart
    \/ HookReturn
    \/ Execute

FairSpec ==
    /\ Spec
    /\ WF_vars(SupervisorStep)
    /\ WF_vars(HookExit)
    /\ WF_vars(AgentExit)
    /\ WF_vars(SleepDone)


\* ======================================================== process registry
\* The PID record (internal/pidfile) and the stop command that uses it.  A
\* call is a sequence of steps of its caller; the steps of different callers
\* interleave, and any live process may exit between two steps.

\* --------------------------------------------------------- bounds, constants
MaxCalls == 2       \* registry calls explored, over all callers
MaxPolls == 30      \* stopLoop's polls of the process's liveness

\* ------------------------------------------------------- the record's text
Digits == <<"0", "1", "2", "3", "4", "5", "6", "7", "8", "9">>
IsDigit(c) == \E d \in 1..10 : Digits[d] = c
DigitValue(c) == (CHOOSE d \in 1..10 : Digits[d] = c) - 1

\* strconv.Itoa of a process identifier.
RECURSIVE Itoa(_)
Itoa(n) ==
    IF n < 10 THEN <<Digits[n + 1]>>
    ELSE Append(Itoa(n \div 10), Digits[(n % 10) + 1])

RECURSIVE DecimalValue(_)
DecimalValue(ds) ==
    IF ds = <<>> THEN 0
    ELSE 10 * DecimalValue(SubSeq(ds, 1, Len(ds) - 1)) + DigitValue(ds[Len(ds)])

\* strconv.Atoi: an optional sign, then one digit or more and nothing else.
Atoi(text) ==
    LET signed == text # <<>> /\ text[1] \in {"+", "-"}
        body   == IF signed THEN Tail(text) ELSE text
    IN  IF body = <<>> \/ \E i \in 1..Len(body) : ~IsDigit(body[i])
        THEN [ok |-> FALSE, n |-> 0]
        ELSE [ok |-> TRUE,
              n  |-> IF signed /\ text[1] = "-" THEN 0 - DecimalValue(body)
                     ELSE DecimalValue(body)]

RecordOf(pid) == [exists |-> TRUE, text |-> Itoa(pid)]

\* What the record file can hold when a call begins: nothing, a process
\* identifier as Write leaves it, or text that is no identifier (empty, an
\* identifier followed by a newline, words).
RecordFiles ==
    {NoRecord} \cup { RecordOf(q) : q \in Pids }
      \cup { [exists |-> TRUE, text |-> t] :
               t \in { <<>>, <<"1", "2", "\n">>, <<"p", "i", "d">> } }

\* PIDFile.Read on the file f: (pid, err).
ReadResult(f) ==
    IF ~f.exists THEN [pid |-> 0, err |-> "ErrNotRunning"]
    ELSE IF ~Atoi(f.text).ok THEN [pid |-> 0, err |-> "invalid PID file"]
    ELSE [pid |-> Atoi(f.text).n, err |-> "nil"]

\* isProcessRunning: the zero signal is delivered exactly to a process that
\* exists.
isProcessRunning(pid) == pid \in live

\* PIDFile.IsRunning's return for what Read gave and what the probe found.
IsRunningReturn(r, running) ==
    IF r.err # "nil" THEN [ok |-> FALSE, pid |-> 0]
    ELSE [ok |-> running, pid |-> r.pid]


\* ------------------------------------------------------------------- calls
\* The calls a process makes: the registry's operations, and, for a second
\* invocation of the program, the stop command with or without --force,
\* after which that process makes no further call.
CallKinds(p) ==
    { [op |-> o, sig |-> "none"] : o \in {"Write", "Read", "Remove", "IsRunning"} }
      \cup { [op |-> "Signal", sig |-> g] : g \in {"TERM", "KILL"} }
      \cup (IF p = SecondPid
            THEN { [op |-> "stopLoop", sig |-> g] : g \in {"TERM", "KILL"} }
            ELSE {})

FirstPhase(op) ==
    CASE op = "IsRunning" -> "isrunning"
      [] op = "Signal" -> "signal"
      [] op = "stopLoop" -> "check"
      [] OTHER -> "call"

Ret(op, err, ok, pid, out) ==
    [op |-> op, err |-> err, ok |-> ok, pid |-> pid, out |-> out]

At(p, phase, step) ==
    /\ p \in live
    /\ inCall[p].phase = phase
    /\ inCall[p].step = step

Goto(p, phase, step) ==
    /\ inCall' = [inCall EXCEPT ![p].phase = phase, ![p].step = step]
    /\ ret' = ret

Return(p, r) ==
    /\ inCall' = [inCall EXCEPT ![p] = Idle]
    /\ ret' = [ret EXCEPT ![p] = r]

StartCall(p) ==
    /\ p \in live
    /\ inCall[p] = Idle
    /\ budget > 0
    /\ ret[p].op # "stopLoop"
    /\ ret' = [ret EXCEPT ![p] = NoReturn]
    /\ \E c \in CallKinds(p) :
         /\ budget' = budget - 1
         /\ inCall' = [inCall EXCEPT ![p] =
                         [op |-> c.op, phase |-> FirstPhase(c.op),
                          step |-> IF c.op = "Remove" THEN "remove" ELSE "read",
                          sig |-> c.sig, pid |-> 0, polls |-> 0]]
    /\ UNCHANGED <<record, live, sent, run, view>>

\* PIDFile.Read called on its own.
RegRead(p) ==
    /\ At(p, "call", "read")
    /\ inCall[p].op = "Read"
    /\ LET r == ReadResult(record)
       IN  Return(p, Ret("Read", r.err, r.err = "nil", r.pid, ""))
    /\ UNCHANGED <<record, live, sent, budget, run, view>>

\* PIDFile.Remove called on its own.
RegRemove(p) ==
    /\ At(p, "call", "remove")
    /\ record' = NoRecord
    /\ Return(p, Ret("Remove", "nil", TRUE, 0, ""))
    /\ UNCHANGED <<live, sent, budget, run, view>>

\* PIDFile.Write: Read, the probe of the process read, Remove of a stale
\* record, WriteFile of the caller's own identifier.
WriteRead(p) ==
    /\ At(p, "call", "read")
    /\ inCall[p].op = "Write"
    /\ LET r == ReadResult(record)
       IN  IF r.err = "nil"
           THEN inCall' = [inCall EXCEPT ![p].step = "probe", ![p].pid = r.pid]
           ELSE inCall' = [inCall EXCEPT ![p].step = "write"]
    /\ UNCHANGED <<record, live, ret, sent, budget, run, view>>

\* Mutant of WriteProbe: a record that names the caller itself is taken for
\* stale.
WriteProbeSparesSelf(p) ==
    /\ At(p, "call", "probe")
    /\ IF isProcessRunning(inCall[p].pid) /\ inCall[p].pid # p
       THEN Return(p, Ret("Write", "ErrAlreadyRunning", FALSE, inCall[p].pid, ""))
       ELSE Goto(p, "call", "remove_stale")
    /\ UNCHANGED <<record, live, sent, budget, run, view>>

WriteProbe(p) ==
    /\ At(p, "call", "probe")
    /\ IF isProcessRunning(inCall[p].pid)
       THEN Return(p, Ret("Write", "ErrAlreadyRunning", FALSE, inCall[p].pid, ""))
       ELSE Goto(p, "call", "remove_stale")
    /\ UNCHANGED <<record, live, sent, budget, run, view>>

WriteRemove(p) ==
    /\ At(p, "call", "remove_stale")
    /\ record' = NoRecord
    /\ Goto(p, "call", "write")
    /\ UNCHANGED <<live, sent, budget, run, view>>

WriteWrite(p) ==
    /\ At(p, "call", "write")
    /\ record' = RecordOf(p)
    /\ Return(p, Ret("Write", "nil", TRUE, p, ""))
    /\ UNCHANGED <<live, sent, budget, run, view>>


\* Mutant of StopAfterIsRunning: one poll more before giving up.
StopAfterIsRunningOneMore(p, res) ==
    IF inCall[p].phase = "check"
    THEN IF ~res.ok
         THEN Return(p, Ret("stopLoop", "nil", FALSE, 0, "not running"))
         ELSE Goto(p, "signal", "read")
    ELSE IF ~res.ok
         THEN Goto(p, "cleanup", "remove")
         ELSE IF inCall[p].polls + 1 > MaxPolls
         THEN Return(p, Ret("stopLoop", "nil", FALSE, 0, "still running"))
         ELSE /\ inCall' = [inCall EXCEPT ![p].step = "read", ![p].polls = @ + 1]
              /\ ret' = ret

\* stopLoop after an IsRunning of its own has returned res: the first one
\* decides whether there is anything to stop, the later ones are the polls.
StopAfterIsRunning(p, res) ==
    IF inCall[p].phase = "check"
    THEN IF ~res.ok
         THEN Return(p, Ret("stopLoop", "nil", FALSE, 0, "not running"))
         ELSE Goto(p, "signal", "read")
    ELSE IF ~res.ok
         THEN Goto(p, "cleanup", "remove")
         ELSE IF inCall[p].polls + 1 >= MaxPolls
         THEN Return(p, Ret("stopLoop", "nil", FALSE, 0, "still running"))
         ELSE /\ inCall' = [inCall EXCEPT ![p].step = "read", ![p].polls = @ + 1]
              /\ ret' = ret

IsRunningReturns(p, res) ==
    IF inCall[p].op = "IsRunning"
    THEN Return(p, Ret("IsRunning", "nil", res.ok, res.pid, ""))
    ELSE StopAfterIsRunning(p, res)

\* PIDFile.IsRunning: Read, then the probe.
IsRunningRead(p) ==
    /\ p \in live
    /\ inCall[p].phase \in {"isrunning", "check", "poll"}
    /\ inCall[p].step = "read"
    /\ LET r == ReadResult(record)
       IN  IF r.err # "nil"
           THEN IsRunningReturns(p, IsRunningReturn(r, FALSE))
           ELSE /\ inCall' = [inCall EXCEPT ![p].step = "probe", ![p].pid = r.pid]
                /\ ret' = ret
    /\ UNCHANGED <<record, live, sent, budget, run, view>>

IsRunningProbe(p) ==
    /\ p \in live
    /\ inCall[p].phase \in {"isrunning", "check", "poll"}
    /\ inCall[p].step = "probe"
    /\ IsRunningReturns(p, IsRunningReturn([pid |-> inCall[p].pid, err |-> "nil"],
                                           isProcessRunning(inCall[p].pid)))
    /\ UNCHANGED <<record, live, sent, budget, run, view>>

\* stopLoop after pf.Stop or pf.Kill has returned err; Signal's own return
\* otherwise.
SignalReturns(p, err) ==
    IF inCall[p].op = "Signal"
    THEN Return(p, Ret("Signal", err, err = "nil", inCall[p].pid, ""))
    ELSE IF err # "nil"
    THEN Return(p, Ret("stopLoop", "failed to stop Ralph", FALSE, 0, ""))
    ELSE /\ inCall' = [inCall EXCEPT ![p].phase = "poll", ![p].step = "read",
                                     ![p].polls = 0]
         /\ ret' = ret

\* PIDFile.Signal: Read, the probe, then Remove of a stale record or the
\* delivery of the signal.
SignalRead(p) ==
    /\ At(p, "signal", "read")
    /\ LET r == ReadResult(record)
       IN  IF r.err # "nil"
           THEN SignalReturns(p, r.err)
           ELSE /\ inCall' = [inCall EXCEPT ![p].step = "probe", ![p].pid = r.pid]
                /\ ret' = ret
    /\ UNCHANGED <<record, live, sent, budget, run, view>>

SignalProbe(p) ==
    /\ At(p, "signal", "probe")
    /\ IF isProcessRunning(inCall[p].pid)
       THEN Goto(p, "signal", "deliver")
       ELSE Goto(p, "signal", "remove")
    /\ UNCHANGED <<record, live, sent, budget, run, view>>

SignalRemove(p) ==
    /\ At(p, "signal", "remove")
    /\ record' = NoRecord
    /\ SignalReturns(p, "ErrNotRunning")
    /\ UNCHANGED <<live, sent, budget, run, view>>

\* Mutant of SignalDeliver: the signal sent is always the graceful one.
SignalDeliverAlwaysTerm(p) ==
    /\ At(p, "signal", "deliver")
    /\ IF inCall[p].pid \in live
       THEN /\ sent' = Append(sent, [to |-> inCall[p].pid, sig |-> "TERM", by |-> p,
                                     op |-> inCall[p].op])
            /\ SignalReturns(p, "nil")
       ELSE /\ sent' = sent
            /\ SignalReturns(p, "os: process already finished")
    /\ UNCHANGED <<record, live, budget, run, view>>

\* process.Signal: delivered to a process that exists, an error for one that
\* has exited since the probe.
SignalDeliver(p) ==
    /\ At(p, "signal", "deliver")
    /\ IF inCall[p].pid \in live
       THEN /\ sent' = Append(sent, [to |-> inCall[p].pid, sig |-> inCall[p].sig,
                                     by |-> p, op |-> inCall[p].op])
            /\ SignalReturns(p, "nil")
       ELSE /\ sent' = sent
            /\ SignalReturns(p, "os: process already finished")
    /\ UNCHANGED <<record, live, budget, run, view>>

\* stopLoop's Remove once a poll has found the process gone.
StopCleanup(p) ==
    /\ At(p, "cleanup", "remove")
    /\ record' = NoRecord
    /\ Return(p, Ret("stopLoop", "nil", TRUE, 0, "stopped"))
    /\ UNCHANGED <<live, sent, budget, run, view>>

\* A process exits, whatever it was doing.
Exit(q) ==
    /\ q \in live
    /\ live' = live \ {q}
    /\ inCall' = [p \in Callers |-> IF p = q THEN Idle ELSE inCall[p]]
    /\ UNCHANGED <<record, ret, sent, budget, run, view>>

RegistryInit ==
    /\ NoRun
    /\ ViewAtRest
    /\ record \in RecordFiles
    /\ live \in { Callers, Pids }
    /\ inCall = [p \in Callers |-> Idle]
    /\ ret = [p \in Callers |-> NoReturn]
    /\ sent = <<>>
    /\ budget = MaxCalls

RegistryNext ==
    \/ \E p \in Callers :
         \/ StartCall(p)
         \/ RegRead(p)
         \/ RegRemove(p)
         \/ WriteRead(p)
         \/ WriteProbe(p)
         \/ WriteRemove(p)
         \/ WriteWrite(p)
         \/ IsRunningRead(p)
         \/ IsRunningProbe(p)
         \/ SignalRead(p)
         \/ SignalProbe(p)
         \/ SignalRemove(p)
         \/ SignalDeliver(p)
         \/ StopCleanup(p)
    \/ \E q \in Pids : Exit(q)

RegistrySpec == RegistryInit /\ [][RegistryNext]_vars

\* The steps the stop command consists of.  Its process is scheduled like
\* any other and time.Sleep returns, so a step it can take is taken.
StopStep(p) ==
    /\ inCall[p].op = "stopLoop"
    /\ \/ IsRunningRead(p)
       \/ IsRunningProbe(p)
       \/ SignalRead(p)
       \/ SignalProbe(p)
       \/ SignalRemove(p)
       \/ SignalDeliver(p)
       \/ StopCleanup(p)

FairRegistrySpec == RegistrySpec /\ WF_vars(StopStep(SecondPid))


\* ============================================================== NextStory
\* NextStory as a function of the task list alone.

RECURSIVE StoryLists(_, _, _)
StoryLists(n, prios, flags) ==
    IF n = 0 THEN {<<>>}
    ELSE { Append(l, Story(n, pr, pa)) :
             l \in StoryLists(n - 1, prios, flags), pr \in prios, pa \in flags }

\* The lists NextStory is called on: every list of up to short stories, and
\* the longer lists, up to long stories, of pending stories of two
\* priorities.
PickInputs(short, long) ==
    UNION { StoryLists(n, 1..MaxPriority, BOOLEAN) : n \in 0..short }
      \cup UNION { StoryLists(n, 1..2, {FALSE}) : n \in (short + 1)..long }

PickInit ==
    /\ NoRun
    /\ RegistryAtRest
    /\ userStories \in PickInputs(MaxShort, MaxLong)
    /\ picked = NoStory
    /\ pickDone = FALSE
    /\ answers = NoAnswers

CallNextStory ==
    /\ ~pickDone
    /\ picked' \in NextStoryOutcomes(userStories)
    /\ pickDone' = TRUE
    /\ UNCHANGED <<userStories, answers, run, registry>>

PickNext == CallNextStory

PickSpec == PickInit /\ [][PickNext]_vars


\* ===================================================== IsComplete and Stats
\* The two summaries of a task list, as functions of the list alone.

\* The lists they are called on: every combination of passing and pending
\* stories up to the length given.
ViewInputs(longest) == UNION { StoryLists(n, {1}, BOOLEAN) : n \in 0..longest }

ViewInit ==
    /\ NoRun
    /\ RegistryAtRest
    /\ userStories \in ViewInputs(MaxView)
    /\ picked = NoStory
    /\ pickDone = FALSE
    /\ answers = NoAnswers

CallIsComplete ==
    /\ answers.IsComplete = <<>>
    /\ answers' = [answers EXCEPT !.IsComplete = <<IsComplete(userStories)>>]
    /\ UNCHANGED <<userStories, picked, pickDone, run, registry>>

CallStats ==
    /\ answers.Stats = <<>>
    /\ answers' = [answers EXCEPT !.Stats = <<Stats(userStories)>>]
    /\ UNCHANGED <<userStories, picked, pickDone, run, registry>>

ViewNext == CallIsComplete \/ CallStats

ViewSpec == ViewInit /\ [][ViewNext]_vars


\* ================================================================== claims
Done == pc = "done"
RunDone == Done /\ ~Config.runOnce

\* The chain of an error holds the message msg.
Mentions(err, msg) == \E i \in 1..Len(err) : err[i] = msg

\* The run ended on a file that could not be reloaded or a prompt that could
\* not be rendered.
LoadOrRenderFailed ==
    /\ result.Error # NoError
    /\ result.Error[1] \in {"failed to reload PRD", "failed to reload progress",
                            "failed to render prompt"}

\* Run found the task list complete on entry: the list in memory is still
\* the one Load read, and it is complete.
FullAtEntry == reloads = 0 /\ IsComplete(PRD)

\* The task list was never found complete, on entry or at a reload.
NeverFull == ~fullAtReload /\ ~FullAtEntry

\* C1: when all hooks succeed, no reload finds the task list complete and the
\* agent's output first holds the completion marker on its k-th invocation,
\* Run ends with reason complete, success, iterations = k, after exactly k
\* agent invocations.
C1_MarkerEndsRunAtK ==
    (RunDone /\ markerAt >= 1 /\ ~hookFailed /\ NeverFull)
        => /\ result.Reason = "complete"
           /\ result.Success
           /\ result.Iterations = markerAt
           /\ agentCalls = markerAt
           /\ markerAt <= Config.MaxIterations

C1_Witness ==
    /\ RunDone
    /\ markerAt = 1
    /\ Config.MaxIterations = 2
    /\ Config.HooksEnabled /\ Config.Hooks = AllHooks
    /\ ~hookFailed /\ NeverFull

\* C2: with maxIterations = N >= 1, an agent that never emits the marker and
\* never fails, hooks that all succeed and a task list no reload finds
\* complete (and no cancellation, unreadable file or render failure), Run
\* ends with reason max_iterations, iterations = N, after N agent invocations.
C2_ExhaustsAfterN ==
    (RunDone /\ Config.MaxIterations >= 1 /\ markerAt = 0 /\ ~agentFailed
       /\ ~hookFailed /\ NeverFull /\ ~ctxDone /\ ~LoadOrRenderFailed)
        => /\ result.Reason = "max_iterations"
           /\ result.Iterations = Config.MaxIterations
           /\ agentCalls = Config.MaxIterations

\* C2 with a task list that holds a story: the one case the code and C2
\* part on is the empty list.
C2_ExhaustsAfterNNonEmpty ==
    (RunDone /\ Config.MaxIterations >= 1 /\ markerAt = 0 /\ ~agentFailed
       /\ ~hookFailed /\ NeverFull /\ ~ctxDone /\ ~LoadOrRenderFailed
       /\ Len(PRD) > 0)
        => /\ result.Reason = "max_iterations"
           /\ result.Iterations = Config.MaxIterations
           /\ agentCalls = Config.MaxIterations

\* C3: a run that ends with reason cancelled reports as iterations the number
\* of iterations actually run: 0 when the token was cancelled before the
\* first one, k when it was cancelled between iteration k and k+1.
C3_CancelledCountsIterationsRun ==
    (RunDone /\ result.Reason = "cancelled") => result.Iterations = reloads

\* C4: a cancellation by the caller is never reported with reason error: no
\* Result with reason error carries an error that the cancellation caused
\* (a subprocess refused or killed because the token was signalled).
CausedByCancel(err) ==
    Mentions(err, ErrCanceled[1]) \/ Mentions(err, ErrKilled[1])

C4_CancelNeverError ==
    (RunDone /\ result.Reason = "error") => ~CausedByCancel(result.Error)

\* C5: when the agent process cannot be started in an iteration, Run stops in
\* that iteration with reason error carrying the launch failure; the loop
\* neither sleeps nor goes on to a further iteration.
C5_LaunchFailureStopsRun ==
    (~Config.runOnce /\ agentResult.Error = ErrNotFound)
        => /\ pc \in {"onFailure", "done"}
           /\ result.Reason = "error"
           /\ Mentions(result.Error, ErrNotFound[1])

\* C6: every fatal error ends Run with reason error and the error set, the
\* failure hook having been dispatched exactly once; an agent that cannot be
\* launched is such a fatal error.
C6_FatalErrorFiresFailureHook ==
    /\ (RunDone /\ result.Reason = "error")
          => (result.Error # NoError /\ fired["onFailure"] = 1)
    /\ (RunDone /\ agentResult.Error = ErrNotFound) => result.Reason = "error"


\* C7: when a command of the iteration phase fails in iteration 1, the agent
\* has not been and is never invoked, Run records reason error with
\* iterations = 1 and dispatches the failure hook with a reason that names
\* the failing command; from there the run only finishes, the Result as it is.
IterationHookFailsNow ==
    /\ ~Config.runOnce
    /\ pc = "onIteration"
    /\ Iteration = 1
    /\ child = "hook"
    /\ pc' # "onIteration"

C7_IterationHookFailure ==
    [][ /\ IterationHookFailsNow
           => /\ pc' = "onFailure"
              /\ fired'["onFailure"] = 1
              /\ result'.Reason = "error"
              /\ result'.Iterations = 1
              /\ agentCalls' = 0
              /\ hookEnv'.RALPH_HOOK = "onFailure"
              /\ hookEnv'.RALPH_ITERATION = 1
              /\ Mentions(hookEnv'.RALPH_FAILURE_REASON,
                          "hook " \o Head(hooksLeft) \o " failed")
        /\ (~Config.runOnce /\ pc = "onFailure")
           => /\ pc' \in {"onFailure", "done"}
              /\ result' = result
              /\ agentCalls' = agentCalls
              /\ fired' = fired ]_vars

C7_Witness ==
    /\ RunDone
    /\ result.Reason = "error"
    /\ result.Iterations = 1
    /\ result.Error = <<"onIteration hook failed", "hook npm run lint failed",
                        "exit status 1">>
    /\ fired["onFailure"] = 1
    /\ agentCalls = 0

\* C8: an agent that exits non-zero without the marker in iteration k <
\* maxIterations does not end the loop: Run goes to the inter-iteration sleep
\* with no error recorded, the sleep leads to the loop top, and the loop top,
\* the token not being cancelled, re-reads the task list for iteration k+1.
\* No Result ever carries an "agent execution failed" error.
AgentReturnsNonZeroNow ==
    /\ ~Config.runOnce
    /\ pc \in {"execute", "agent"}
    /\ pc' \notin {"execute", "agent"}
    /\ agentResult'.ExitCode # 0
    /\ ~Contains(agentResult'.Output, Marker)

C9_ReasonIsOneOfFour ==
    Done => result.Reason \in {"complete", "max_iterations", "cancelled", "error"}

\* C10: when the task list is complete on entry, Run has returned reason
\* complete with success and iterations = 0, no hook phase was dispatched
\* and the agent was not invoked.
C10_ShortCircuit ==
    (~Config.runOnce /\ pc # "idle" /\ FullAtEntry)
        => /\ pc = "done"
           /\ result.Reason = "complete"
           /\ result.Success
           /\ result.Iterations = 0
           /\ result.Error = NoError
           /\ \A ph \in Phases : fired[ph] = 0
           /\ agentCalls = 0
           /\ child = "none"

C10_Witness ==
    /\ RunDone
    /\ FullAtEntry
    /\ Config.HooksEnabled /\ Config.Hooks = AllHooks
    /\ result.Reason = "complete"

\* The identifier id is that of a pending story of p whose priority no
\* pending story undercuts, or is empty when p has no pending story.
IsMinPendingID(id, p) ==
    IF \A i \in 1..Len(p) : p[i].Passes
    THEN id = ""
    ELSE \E i \in 1..Len(p) :
           /\ ~p[i].Passes
           /\ p[i].ID = id
           /\ \A j \in 1..Len(p) : ~p[j].Passes => p[i].Priority <= p[j].Priority

StartHookFailed ==
    result.Error # NoError /\ result.Error[1] = "onStart hook failed"

\* C11: in a Run that does not short-circuit at entry the start phase is
\* dispatched exactly once, before any iteration hook or agent invocation,
\* with iteration 0 and the identifier of the minimum-priority pending story
\* (empty when none is pending); when the start phase fails, Run returns
\* reason error and no iteration hook or agent has run.
C11_StartHookOnceFirst ==
    /\ (~Config.runOnce /\ pc # "idle" /\ ~FullAtEntry) => fired["onStart"] = 1
    /\ (~Config.runOnce /\ pc = "onStart")
          => /\ hookEnv.RALPH_HOOK = "onStart"
             /\ hookEnv.RALPH_ITERATION = 0
             /\ IsMinPendingID(hookEnv.RALPH_STORY_ID, PRD)
             /\ fired["onIteration"] = 0
             /\ agentCalls = 0
             /\ reloads = 0
    /\ (~Config.runOnce /\ (fired["onIteration"] > 0 \/ agentCalls > 0))
          => (fired["onStart"] = 1 /\ pc # "onStart")
    /\ (~Config.runOnce /\ StartHookFailed)
          => /\ pc = "done"
             /\ result.Reason = "error"
             /\ fired["onIteration"] = 0
             /\ agentCalls = 0
             /\ reloads = 0

C11_Witness ==
    /\ ~Config.runOnce
    /\ pc = "onStart"
    /\ child = "hook"
    /\ Len(PRD) = 2
    /\ ~PRD[1].Passes /\ ~PRD[2].Passes
    /\ hookEnv.RALPH_STORY_ID = "US-002"

\* C12: a failing command of the complete or the failure phase never changes
\* the Result: from the dispatch of either phase to Run's return the reason,
\* success flag, iterations and error stay what they were at the dispatch,
\* whether the phase's commands succeed or fail.
C12_LateHookFailureSuppressed ==
    [][ (~Config.runOnce /\ pc \in {"onComplete", "onFailure"})
           => /\ result' = result
              /\ pc' \in {pc, "done"} ]_vars

C12_Witness ==
    /\ RunDone
    /\ hookFailed
    /\ fired["onComplete"] = 1
    /\ result.Reason = "complete"
    /\ result.Success
    /\ result.Error = NoError

\* C13: when the loop runs out of iterations, Run records reason
\* max_iterations and dispatches the failure phase, once, with the failure
\* reason "max iterations reached"; the complete phase is not dispatched.
C13_MaxIterationsFiresFailureHook ==
    /\ [][ (pc = "loop" /\ Iteration > Config.MaxIterations /\ pc' # "loop")
              => /\ pc' = "onFailure"
                 /\ result'.Reason = "max_iterations"
                 /\ hookEnv'.RALPH_HOOK = "onFailure"
                 /\ hookEnv'.RALPH_FAILURE_REASON = <<"max iterations reached">>
                 /\ fired'["onFailure"] = 1
                 /\ fired'["onComplete"] = 0 ]_vars
    /\ [](result.Reason = "max_iterations"
            => /\ pc \in {"onFailure", "done"}
               /\ fired["onFailure"] = 1
               /\ fired["onComplete"] = 0)

C13_Witness ==
    /\ RunDone
    /\ result.Reason = "max_iterations"
    /\ Config.MaxIterations = 2
    /\ agentCalls = 2
    /\ Config.HooksEnabled /\ Config.Hooks = AllHooks
    /\ fired["onFailure"] = 1
    /\ ~hookFailed

\* C14: at every point of a run at most one subprocess started by the
\* supervisor is alive: a subprocess is started only when none is alive, the
\* live one is the one the supervisor is waiting on, an agent only during
\* the agent call of the current iteration and a hook command only during
\* its phase.
C14_AtMostOneSubprocess ==
    /\ alive \in {0, 1}
    /\ alive = 1 <=> child # "none"
    /\ child = "agent" => pc = "agent"
    /\ child = "hook" => (pc \in Phases /\ hooksLeft # <<>>)

C14_Witness ==
    /\ pc = "onComplete"
    /\ child = "hook"
    /\ alive = 1
    /\ hooksLeft = <<"notify done">>
    /\ agentCalls = 2
    /\ fired["onIteration"] = 2

\* C15: every iteration re-reads the task-list file first: the step that
\* starts an iteration takes the file's content as the list in memory,
\* decides completion on it, and gives the iteration hook the identifier of
\* its minimum-priority pending story; that list and that story stay the
\* iteration's until the agent has returned, whatever is written to the file
\* meanwhile.
InIteration(p) == p \in {"onIteration", "execute", "agent"}

C15_ReloadEveryIteration ==
    /\ [][ /\ (reloads' = reloads + 1 /\ prdFile.readable)
              => /\ PRD' = prdFile.stories
                 /\ IsComplete(prdFile.stories) => pc' \in {"onComplete", "done"}
                 /\ pc' = "onIteration"
                      => /\ ~IsComplete(prdFile.stories)
                         /\ IsMinPendingID(nextStory'.ID, prdFile.stories)
                         /\ nextStory'.ID # ""
                         /\ hookEnv'.RALPH_STORY_ID = nextStory'.ID
                         /\ hookEnv'.RALPH_ITERATION = Iteration'
           /\ (InIteration(pc) /\ InIteration(pc'))
              => (PRD' = PRD /\ nextStory' = nextStory /\ reloads' = reloads) ]_vars
    /\ [](InIteration(pc) => /\ IsMinPendingID(nextStory.ID, PRD)
                             /\ reloads >= 1
                             /\ ~Config.runOnce => reloads = Iteration)

C15_Witness ==
    /\ ~Config.runOnce
    /\ reloads = 2
    /\ pc = "agent"
    /\ StoriesComplete = 1
    /\ Len(PRD) = 2
    /\ ~PRD[1].Passes /\ PRD[2].Passes
    /\ nextStory.ID = "US-001"
    /\ prdFile # File(PRD)

\* C16: when the agent's subprocess is terminated because the per-invocation
\* deadline expired (cmd.Run returns with the process killed, or with the
\* deadline's error), Execute's result carries the failure description that
\* reports the configured timeout.
AgentEndsOnDeadlineNow ==
    /\ pc = "agent"
    /\ pc' # "agent"
    /\ deadline
    /\ agentResult'.ExitCode = -1

TimedOut(ar) ==
    ar.Error = <<"agent timed out after", DurationString(Config.Timeout)>>

C16_DeadlineIsTimeout ==
    [][ AgentEndsOnDeadlineNow => TimedOut(agentResult') ]_vars

\* C17: the completion flag of an agent result is true exactly when the
\* captured output holds the three marker tokens next to each other, whatever
\* the exit code and error of the result; and an agent call that returns with
\* the flag set ends the run as complete (Run dispatches the complete phase
\* with reason complete and success), even after a non-zero exit or a
\* timeout.
HoldsMarker(s) ==
    \E i \in 1..(Len(s) - 2) :
        s[i] = "<promise>" /\ s[i + 1] = "COMPLETE" /\ s[i + 2] = "</promise>"

AgentReturnsNow == pc \in {"execute", "agent"} /\ agentCalls' >= 1
                     /\ pc' \notin {"execute", "agent"}
                     /\ (pc = "execute" => agentCalls' = agentCalls + 1)

C17_MarkerAloneDecides ==
    /\ [][ AgentReturnsNow
             => /\ agentResult'.IsComplete <=> HoldsMarker(agentResult'.Output)
                /\ agentResult'.IsComplete
                     => /\ result'.Reason = "complete"
                        /\ result'.Success
                        /\ result'.Error = NoError
                        /\ pc' = IF Config.runOnce THEN "done" ELSE "onComplete" ]_vars
    /\ [](agentResult.IsComplete <=> HoldsMarker(agentResult.Output))

C17_Witness ==
    /\ RunDone
    /\ result.Reason = "complete"
    /\ result.Success
    /\ agentResult.IsComplete
    /\ agentResult.ExitCode = -1
    /\ TimedOut(agentResult)

\* C18: the agent is never retried: an agent subprocess is started only by a
\* fresh Execute call, an Execute call is made only once per iteration, and
\* a Run makes at most maxIterations calls (a single-iteration run at most
\* one), whatever the exit codes, timeouts and failures.
C18_NoRetry ==
    /\ [][ /\ agentCalls' \in {agentCalls, agentCalls + 1}
           /\ (child' = "agent" /\ child # "agent")
                => (agentCalls' = agentCalls + 1 /\ alive' = 1)
           /\ agentCalls' = agentCalls + 1
                => (pc = "execute" /\ reloads' = reloads /\ agentCalls < reloads) ]_vars
    /\ [](/\ agentCalls <= reloads
          /\ RunDone => (reloads <= Config.MaxIterations
                           /\ agentCalls <= Config.MaxIterations)
          /\ ~Config.runOnce => (reloads = 0 \/ reloads <= Config.MaxIterations)
          /\ Config.runOnce => agentCalls <= 1)

C18_Witness ==
    /\ RunDone
    /\ Config.MaxIterations = 2
    /\ agentCalls = 2
    /\ agentFailed
    /\ deadline
    /\ agentResult.ExitCode = -1
    /\ result.Reason = "max_iterations"

\* C19: when every hook command and agent eventually exits and the sleep and
\* the file reads return, every Run eventually returns; it returns once, the
\* Result never changing afterwards, in one terminal state: complete (every
\* story of the list read last passes, or the marker was seen),
\* max_iterations, cancelled or error.
C19_RunTerminates ==
    /\ (~Config.runOnce) ~> RunDone
    /\ [][Done => (Done' /\ result' = result)]_vars
    /\ [](RunDone
            => /\ result.Reason \in {"complete", "max_iterations", "cancelled", "error"}
               /\ result.Reason = "complete"
                    => (markerAt >= 1 \/ \A i \in 1..Len(PRD) : PRD[i].Passes)
               /\ result.Reason = "max_iterations"
                    => (reloads = result.Iterations /\ reloads >= Config.MaxIterations)
               /\ result.Reason = "cancelled" => ctxDone
               /\ result.Reason = "error" => result.Error # NoError)

C19_Witness ==
    /\ RunDone
    /\ result.Reason = "max_iterations"
    /\ reloads = 2
    /\ hookFailed
    /\ ctxDone
    /\ prdFile = Unreadable

\* C20: RunOnce sets the iteration counter to 1 and runs one iteration body:
\* one reload, at most one dispatch of the iteration phase (with iteration 1)
\* and at most one agent call, no dispatch of the start, complete or failure
\* phase, no sleep and no second pass through the loop.
C20_RunOnceSingleIteration ==
    (Config.runOnce /\ pc # "idle")
        => /\ Iteration = 1
           /\ reloads = 1
           /\ agentCalls <= 1
           /\ fired["onIteration"] <= 1
           /\ fired["onStart"] = 0
           /\ fired["onComplete"] = 0
           /\ fired["onFailure"] = 0
           /\ pc \in {"onIteration", "execute", "agent", "done"}
           /\ pc = "onIteration" => hookEnv.RALPH_ITERATION = 1

C20_Witness ==
    /\ Config.runOnce
    /\ Done
    /\ Config.HooksEnabled /\ Config.Hooks = AllHooks
    /\ fired["onIteration"] = 1
    /\ agentCalls = 1
    /\ agentResult.IsComplete
    /\ result.Reason = "complete"

\* C28: once the terminate signal has reached the supervisor (its handler has
\* cancelled the token) while the agent of iteration k runs, the supervisor
\* does not kill the agent: the agent call returns with the agent's own exit
\* (code 0 or its own exit status, no error), and the loop top that follows
\* leaves with reason cancelled instead of starting iteration k+1.
C28_GracefulStopSparesAgent ==
    [][ /\ (pc = "agent" /\ ctxDone /\ ~deadline /\ pc' # "agent")
             => /\ agentResult'.ExitCode \in {0, 1}
                /\ agentResult'.Error = NoError
        /\ (~Config.runOnce /\ pc = "loop" /\ ctxDone /\ pc' # "loop"
               /\ Iteration <= Config.MaxIterations)
             => (result'.Reason = "cancelled" /\ reloads' = reloads) ]_vars

\* C29: the dispatcher runs the commands of a phase in list order: what is
\* left to run is always a tail of the phase's list, a command is started
\* only when it is the first one left and not blank, a blank one is passed
\* over without a subprocess, and the list advances by one command at a
\* time; the first command that exits non-zero or cannot be launched ends the
\* phase with the commands after it never run, its error naming the command;
\* with hooks disabled or an empty list no command runs and the phase
\* returns without error.
IsTail(s, t) == \E k \in 0..Len(t) : s = SubSeq(t, k + 1, Len(t))
Blank(command) == command \in {"", " "}

HookStepInOrder ==
    /\ (child = "none" /\ child' = "hook")
         => /\ hooksLeft # <<>>
            /\ ~Blank(Head(hooksLeft))
            /\ hooksLeft' = hooksLeft
            /\ pc' = pc
    /\ (pc' = pc /\ hooksLeft' # hooksLeft)
         => /\ hooksLeft' = Tail(hooksLeft)
            /\ child' = "none"
            /\ child = "none" <=> Blank(Head(hooksLeft))
    /\ (pc' # pc /\ hooksLeft # <<>>)
         => /\ ~Blank(Head(hooksLeft))
            /\ hookFailed'
            /\ child' = "none"
            /\ pc \in {"onStart", "onIteration"}
                 => Mentions(result'.Error, "hook " \o Head(hooksLeft) \o " failed")
    /\ (pc' # pc /\ hooksLeft = <<>>)
         => /\ hookFailed' = hookFailed
            /\ result'.Error = result.Error

C29_HookDispatchInOrder ==
    /\ [][(pc \in Phases) => HookStepInOrder]_vars
    /\ [](/\ pc \in Phases => IsTail(hooksLeft, Config.Hooks[pc])
          /\ child = "hook" => (Config.HooksEnabled /\ pc \in Phases)
          /\ ~Config.HooksEnabled => (hooksLeft = <<>> /\ ~hookFailed))

C29_Witness ==
    /\ RunDone
    /\ hookFailed
    /\ fired["onStart"] = 1
    /\ result.Error = <<"onStart hook failed", "hook git checkout failed",
                        "executable file not found">>

\* C23: from before the first iteration until the run reaches a terminal
\* state the PID record exists and holds the supervisor's own process
\* identifier.
C23_RecordHeldDuringRun ==
    (pc \notin {"idle", "done"}) => record = RecordOf(SupervisorPid)

\* A step that caller p itself takes in its call of the operation op, from
\* the step named.
OwnStep(p, op, step) ==
    /\ inCall[p].op = op
    /\ inCall[p].step = step
    /\ p \in live'
    /\ inCall'[p] # inCall[p]

IsIdentifier(f) ==
    /\ f.exists
    /\ f.text # <<>>
    /\ \A i \in 1..Len(f.text) : IsDigit(f.text[i])

WriteStepsAsSpecified ==
    \A p \in Callers :
      /\ OwnStep(p, "Write", "read")
           => /\ record' = record
              /\ inCall'[p].step = IF IsIdentifier(record) THEN "probe" ELSE "write"
              /\ IsIdentifier(record) => Itoa(inCall'[p].pid) = record.text
      /\ (OwnStep(p, "Write", "probe") /\ inCall[p].pid \in live)
           => /\ record' = record
              /\ inCall'[p] = Idle
              /\ ret'[p] = Ret("Write", "ErrAlreadyRunning", FALSE, inCall[p].pid, "")
      /\ (OwnStep(p, "Write", "probe") /\ inCall[p].pid \notin live)
           => /\ record' = record
              /\ inCall'[p].step = "remove_stale"
      /\ OwnStep(p, "Write", "remove_stale")
           => /\ ~record'.exists
              /\ inCall'[p].step = "write"
      /\ OwnStep(p, "Write", "write")
           => /\ record'.exists
              /\ Atoi(record'.text) = [ok |-> TRUE, n |-> p]
              /\ inCall'[p] = Idle
              /\ ret'[p].op = "Write" /\ ret'[p].err = "nil"

\* C21: Write by a live caller, step by step: a record that names a live
\* process (the caller itself included) makes the call fail with
\* ErrAlreadyRunning and the record is left as it was; a record that names
\* a process that has exited is removed and then the caller's own
\* identifier is written and the call succeeds; Write reaches the write
\* only over a missing, unparsable or stale record.
C21_WriteRefusesLiveRecord == [][WriteStepsAsSpecified]_vars

\* The supervisor has made both calls, and its Write over the record that
\* names the supervisor itself has been refused.
C21_Witness ==
    /\ budget = 0
    /\ SupervisorPid \in live
    /\ ret[SupervisorPid] = Ret("Write", "ErrAlreadyRunning", FALSE, SupervisorPid, "")
    /\ ret[SecondPid] = NoReturn
    /\ record = RecordOf(SupervisorPid)

WriteSucceeded(p) == ret[p].op = "Write" /\ ret[p].err = "nil"

\* C22: when the two live processes have each called Write once, with the
\* steps of the two calls interleaved in any way, at most one of the calls
\* has returned success, and the record names the one whose call
\* succeeded.
C22_SingleWriter ==
    ( /\ Callers \subseteq live
      /\ \A p \in Callers : inCall[p] = Idle /\ ret[p].op = "Write" )
      => /\ ~(WriteSucceeded(SupervisorPid) /\ WriteSucceeded(SecondPid))
         /\ \A p \in Callers : WriteSucceeded(p) => record = RecordOf(p)

ReadStepAsSpecified ==
    \A p \in Callers :
      OwnStep(p, "Read", "read")
        => /\ ret'[p].op = "Read"
           /\ IF IsIdentifier(record)
              THEN /\ ret'[p].err = "nil"
                   /\ Itoa(ret'[p].pid) = record.text
              ELSE ret'[p].err = "ErrNotRunning"

\* C24: Read returns the identifier that a record of decimal digits holds,
\* and fails with ErrNotRunning both when there is no record file and when
\* the file's content is not an identifier.
C24_ReadFailsNotRunning == [][ReadStepAsSpecified]_vars

\* C25: IsRunning never returns an error; every return of false comes with
\* the identifier 0, and a return of true with the identifier of a process
\* that was recorded.
C25_IsRunningFalseZero ==
    \A p \in Callers :
      ret[p].op = "IsRunning"
        => /\ ret[p].err = "nil"
           /\ ~ret[p].ok => ret[p].pid = 0
           /\ ret[p].ok => ret[p].pid \in Pids

\* A step that caller p itself takes inside PIDFile.Signal, from the step
\* named.
SignalStep(p, step) ==
    /\ inCall[p].phase = "signal"
    /\ inCall[p].step = step
    /\ p \in live'
    /\ inCall'[p] # inCall[p]

SignalFails(p, err) ==
    /\ inCall'[p] = Idle
    /\ inCall[p].op = "Signal" => (ret'[p].op = "Signal" /\ ret'[p].err = err)
    /\ inCall[p].op = "stopLoop" => ret'[p].err = "failed to stop Ralph"

SignalStepsAsSpecified ==
    \A p \in Callers :
      /\ (SignalStep(p, "read") /\ ~record.exists)
           => /\ SignalFails(p, "ErrNotRunning")
              /\ record' = record
              /\ sent' = sent
      /\ (SignalStep(p, "read") /\ IsIdentifier(record))
           => /\ inCall'[p].step = "probe"
              /\ Itoa(inCall'[p].pid) = record.text
              /\ record' = record
              /\ sent' = sent
      /\ SignalStep(p, "probe")
           => /\ inCall'[p].step
                   = IF inCall[p].pid \in live THEN "deliver" ELSE "remove"
              /\ record' = record
              /\ sent' = sent
      /\ SignalStep(p, "remove")
           => /\ SignalFails(p, "ErrNotRunning")
              /\ ~record'.exists
              /\ sent' = sent
      /\ (SignalStep(p, "deliver") /\ inCall[p].pid \in live)
           => /\ sent' = Append(sent, [to |-> inCall[p].pid, sig |-> inCall[p].sig,
                                        by |-> p, op |-> inCall[p].op])
              /\ record' = record
              /\ inCall[p].op = "Signal"
                   => (inCall'[p] = Idle /\ ret'[p].op = "Signal" /\ ret'[p].err = "nil")

\* C26: Signal, step by step: with no record it fails with ErrNotRunning
\* and changes nothing; for a recorded process that the probe finds gone it
\* removes the record and fails with ErrNotRunning, and no signal is sent;
\* for a recorded process that is live it sends that process one signal,
\* of the kind asked for, and leaves the record as it is.
C26_SignalAsRequested == [][SignalStepsAsSpecified]_vars

\* The second process has asked for a kill of the recorded supervisor: one
\* kill signal went to the supervisor and the record is still in place.
C26_Witness ==
    /\ ret[SecondPid].op = "Signal"
    /\ ret[SecondPid].err = "nil"
    /\ sent = <<[to |-> SupervisorPid, sig |-> "KILL", by |-> SecondPid,
                  op |-> "Signal"]>>
    /\ record = RecordOf(SupervisorPid)

\* The signals the stop command has sent.
StopSignals == SelectSeq(sent, LAMBDA m : m.by = SecondPid /\ m.op = "stopLoop")

\* What an IsRunning inside stopLoop is about to return, at the step that
\* ends it.
SeesGone(p) ==
    \/ inCall[p].step = "read" /\ ~IsIdentifier(record)
    \/ inCall[p].step = "probe" /\ inCall[p].pid \notin live
SeesLive(p) == inCall[p].step = "probe" /\ inCall[p].pid \in live

StopStepsAsSpecified ==
    LET p == SecondPid
        step == inCall[p].op = "stopLoop" /\ p \in live' /\ inCall'[p] # inCall[p]
    IN  /\ (step /\ inCall[p].phase \in {"check", "poll", "cleanup"}) => sent' = sent
        /\ (step /\ inCall[p].phase \in {"check", "poll"}) => record' = record
        /\ (step /\ inCall[p].phase = "check" /\ SeesGone(p))
             => ret'[p] = Ret("stopLoop", "nil", FALSE, 0, "not running")
        /\ (step /\ inCall[p].phase = "check" /\ SeesLive(p))
             => inCall'[p].phase = "signal"
        /\ (step /\ inCall[p].phase = "signal" /\ inCall'[p] # Idle)
             => /\ inCall'[p].phase \in {"signal", "poll"}
                /\ inCall'[p].phase = "poll"
                     => /\ inCall[p].step = "deliver"
                        /\ sent' = Append(sent, [to |-> inCall[p].pid,
                                                  sig |-> inCall[p].sig,
                                                  by |-> p, op |-> "stopLoop"])
        /\ (step /\ inCall[p].phase = "poll" /\ SeesGone(p))
             => inCall'[p].phase = "cleanup"
        /\ (step /\ inCall[p].phase = "poll" /\ SeesLive(p))
             => IF inCall[p].polls + 1 = MaxPolls
                THEN ret'[p] = Ret("stopLoop", "nil", FALSE, 0, "still running")
                ELSE inCall'[p].phase = "poll" /\ inCall'[p].polls = inCall[p].polls + 1
        /\ (step /\ inCall[p].phase = "cleanup")
             => /\ ~record'.exists
                /\ ret'[p] = Ret("stopLoop", "nil", TRUE, 0, "stopped")

StopOutcomes ==
    LET p == SecondPid
    IN  /\ Len(StopSignals) <= 1
        /\ inCall[p].polls < MaxPolls
        /\ (inCall[p].op = "stopLoop" /\ inCall[p].phase \in {"poll", "cleanup"})
             => (Len(StopSignals) = 1 /\ StopSignals[1].sig = inCall[p].sig)
        /\ ret[p].op = "stopLoop"
             => /\ ret[p].out \in {"stopped", "still running"}
                     <=> Len(StopSignals) = 1
                /\ ret[p].err = "nil"
                     <=> ret[p].out \in {"not running", "stopped", "still running"}

\* C27: the stop command sends at most one signal, of the kind asked for
\* (TERM, or KILL when forced), and none when its first look finds no live
\* recorded process; after the signal it polls at most MaxPolls times; a
\* poll that finds the process gone leads to the removal of the record and
\* the success report, the last poll that still finds it live to the
\* still-running report, returned without an error and with the record
\* left alone; and the command always comes to an end.
C27_StopBounded ==
    /\ [][StopStepsAsSpecified]_vars
    /\ []StopOutcomes
    /\ (inCall[SecondPid].op = "stopLoop") ~> (inCall[SecondPid] = Idle)

\* The graceful stop has given up after its last poll: one TERM went to the
\* supervisor, which is still live and still recorded.
C27_Witness ==
    /\ ret[SecondPid] = Ret("stopLoop", "nil", FALSE, 0, "still running")
    /\ sent = <<[to |-> SupervisorPid, sig |-> "TERM", by |-> SecondPid,
                  op |-> "stopLoop"]>>
    /\ SupervisorPid \in live
    /\ record = RecordOf(SupervisorPid)

\* C30: NextStory returns none exactly when no story is pending; otherwise
\* it returns a pending story of the least priority value, and of the
\* pending stories of that priority the one earliest in the list.
C30_MinPriorityEarliest ==
    pickDone =>
      IF \A j \in 1..Len(userStories) : userStories[j].Passes
      THEN picked = NoStory
      ELSE \E i \in 1..Len(userStories) :
             /\ picked = userStories[i]
             /\ ~userStories[i].Passes
             /\ \A j \in 1..Len(userStories) :
                  ~userStories[j].Passes
                    => \/ userStories[i].Priority < userStories[j].Priority
                       \/ /\ userStories[i].Priority = userStories[j].Priority
                          /\ i <= j

RECURSIVE CountPassing(_)
CountPassing(l) ==
    IF l = <<>> THEN 0
    ELSE CountPassing(Tail(l)) + (IF Head(l).Passes THEN 1 ELSE 0)

\* C31: IsComplete is true exactly for a list that has a story and no
\* pending one; Stats returns the length of the list, the number of passing
\* stories and the number of pending ones, which add up to the total; and
\* IsComplete agrees with total > 0 and pending = 0.
C31_CompleteAndStats ==
    /\ answers.IsComplete # <<>>
         => (answers.IsComplete[1]
               <=> /\ userStories # <<>>
                   /\ ~\E i \in 1..Len(userStories) : ~userStories[i].Passes)
    /\ answers.Stats # <<>>
         => /\ answers.Stats[1].total = Len(userStories)
            /\ answers.Stats[1].completed = CountPassing(userStories)
            /\ answers.Stats[1].total
                 = answers.Stats[1].completed + answers.Stats[1].pending
    /\ (answers.IsComplete # <<>> /\ answers.Stats # <<>>)
         => (answers.IsComplete[1]
               <=> (answers.Stats[1].total > 0 /\ answers.Stats[1].pending = 0))

\* Both functions have answered for the empty list: not complete, and
\* nothing counted.
C31_Witness ==
    /\ userStories = <<>>
    /\ answers.IsComplete = <<FALSE>>
    /\ answers.Stats = <<[total |-> 0, completed |-> 0, pending |-> 0]>>

\* C32: a run that has been started has maxIterations of at least 1, and so
\* a finished run that was not short-circuited, whose start hooks did not
\* fail and that was not cancelled has gone through at least one
\* iteration.
C32_MaxIterationsAtLeastOne ==
    /\ pc # "idle" => Config.MaxIterations >= 1
    /\ (RunDone /\ ~FullAtEntry /\ ~StartHookFailed /\ result.Reason # "cancelled")
         => reloads >= 1

CancelledInSleepStep ==
    /\ (pc = "sleep" /\ ctxDone /\ pc' # pc)
         => /\ pc' = "loop"
            /\ Iteration' = Iteration + 1
            /\ Iteration' <= Config.MaxIterations
            /\ ctxDone'
            /\ UNCHANGED <<result, reloads, fired, agentCalls, alive, child>>
    /\ (pc = "sleep" /\ ~ctxDone /\ ctxDone') => pc' = "sleep"
    /\ (pc = "loop" /\ ctxDone /\ Iteration <= Config.MaxIterations /\ pc' # pc)
         => /\ pc' = "done"
            /\ result'.Reason = "cancelled"
            /\ result'.Error = ErrCanceled
            /\ UNCHANGED <<PRD, reloads, fired, agentCalls, alive, child>>

\* C33: a cancellation that arrives during the sleep after an iteration does
\* not end the sleep; the sleep can always end, and when it is over the run
\* goes to the top of the loop, whose check can always be made and ends the
\* run there with reason cancelled; between the cancellation and the end
\* the task list is not read again, no hook phase is dispatched and no
\* subprocess is started.
C33_CancelDuringSleep ==
    /\ [][CancelledInSleepStep]_vars
    /\ [](pc = "sleep" => (ENABLED SleepDone /\ Iteration < Config.MaxIterations))
    /\ [](pc = "loop" => ENABLED LoopTop)

\* The run was cancelled after the agent of iteration 1 had ended by itself
\* and has ended before iteration 2: one reload, one agent call.
C33_Witness ==
    /\ RunDone
    /\ result.Reason = "cancelled"
    /\ result.Iterations = 2
    /\ reloads = 1
    /\ agentCalls = 1
    /\ agentResult.ExitCode = 0
    /\ agentResult.Error = NoError

SleepPlacedStep ==
    /\ (pc' = "sleep" /\ pc # "sleep")
         => /\ pc \in {"execute", "agent"}
            /\ ~Config.runOnce
            /\ Iteration < Config.MaxIterations
            /\ Iteration' = Iteration
            /\ result' = result
            /\ ~agentResult'.IsComplete
    /\ (~Config.runOnce /\ pc \in {"execute", "agent"} /\ pc' \notin {"execute", "agent"})
         => \/ pc' = "sleep"
            \/ pc' = "loop" /\ Iteration = Config.MaxIterations
            \/ pc' = "onComplete" /\ result'.Reason = "complete"
            \/ pc' = "onFailure" /\ result'.Reason = "error"
    /\ sleeps' # sleeps => (pc = "sleep" /\ sleeps' = sleeps + 1)

\* C34: the supervisor enters the sleep only at the end of an iteration
\* below maxIterations that neither completed nor failed, and every such
\* iteration is followed by it; the last configured iteration and an
\* iteration that ended complete or with an error are not; and a run that
\* ends with max_iterations after N iterations has slept N - 1 times.
C34_SleepsBetweenIterations ==
    /\ [][SleepPlacedStep]_vars
    /\ []((RunDone /\ result.Reason = "max_iterations")
            => sleeps = result.Iterations - 1)

\* C35: in every Result returned by Run, success holds exactly for reason
\* complete, the error is set exactly for reasons error and cancelled, and
\* the iteration count lies between 0 and maxIterations.
C35_ResultWellFormed ==
    RunDone =>
      /\ result.Reason \in {"complete", "error", "cancelled", "max_iterations"}
      /\ result.Success <=> result.Reason = "complete"
      /\ result.Error # NoError <=> result.Reason \in {"error", "cancelled"}
      /\ 0 <= result.Iterations
      /\ result.Iterations <= Config.MaxIterations

\* C36: whenever Run returns with reason complete, either the agent's
\* output of the last iteration held the completion marker, or the task
\* list as last read was non-empty with every story passing; a run over an
\* empty task list never ends complete without the marker.
C36_CompleteHasGround ==
    (RunDone /\ result.Reason = "complete")
        => \/ (markerAt >= 1 /\ markerAt = result.Iterations
                /\ agentResult.IsComplete)
           \/ (Len(PRD) > 0 /\ \A i \in 1..Len(PRD) : PRD[i].Passes)

\* C37: when the token is cancelled while the agent of iteration k is running
\* and the agent's output holds no marker, Run ends with reason cancelled,
\* for every k from 1 to maxIterations, k = maxIterations included: never
\* with max_iterations, and without dispatching the failure hooks.
C37_CancelDuringAgent ==
    (RunDone /\ cancelledIn >= 1 /\ markerAt = 0)
        => /\ result.Reason = "cancelled"
           /\ fired["onFailure"] = 0

\* C38: whenever Run dispatches the failure hooks, the iteration number it
\* passes equals the Result's iteration count and does not exceed
\* maxIterations.
C38_FailureHookIteration ==
    (pc = "onFailure" /\ ~Config.runOnce)
        => /\ hookEnv.RALPH_ITERATION = result.Iterations
           /\ hookEnv.RALPH_ITERATION <= Config.MaxIterations

\* C39: when Run ends with reason complete because the agent's output held
\* the marker, the Result's count of completed stories equals the number of
\* stories read at the top of that iteration, whatever the file holds when
\* it is read again after the agent has exited.
C39_MarkerCountsAllStories ==
    (RunDone /\ result.Reason = "complete" /\ agentResult.IsComplete)
        => result.StoriesComplete = stats.completed + stats.pending

\* A step of caller q inside Write, Signal or the stop command, after q's
\* probe found the process of an earlier record gone, while the record is
\* the one a live process p has written with success.
StaleCleanupSparesLive ==
    \A p \in Callers : \A q \in Callers \ {p} :
      ( /\ WriteSucceeded(p)
        /\ p \in live /\ p \in live'
        /\ record = RecordOf(p)
        /\ inCall[q].op \in {"Write", "Signal", "stopLoop"}
        /\ inCall[q].pid \in Pids \ live
        /\ q \in live'
        /\ inCall'[q] # inCall[q] )
        => record' = record

\* C40: the cleanup of a stale record never removes a live process's
\* record: once the Write of a live process has returned success, no Write,
\* Signal or stop command of another process, whose probe ran against an
\* earlier record of a process that has exited, deletes or overwrites that
\* record while the first process stays alive.
C40_StaleCleanupSparesLiveRecord == [][StaleCleanupSparesLive]_vars

====
